---- MODULE Spec2Model ----
(***************************************************************************)
(* A model of the Poster extraction core: PosterClient._fetch_all (the     *)
(* offset/limit pagination loop with its response type checks) and         *)
(* PosterClient.get_supplies (flattening of nested ingredient lists); of   *)
(* the dashboard aggregates DataProcessor.process_top_products and         *)
(* process_hourly_sales; and of GoogleSheetHandler.save_data with its      *)
(* rolling backup and save_all_data.                                       *)
(*                                                                         *)
(* Decoded JSON values are tagged records [t, v]:                          *)
(*   int   v = the integer          bool  v = the boolean                  *)
(*   null  v = 0                    float v = the value in hundredths      *)
(*   str   v = sequence of characters                                      *)
(*   list  v = sequence of values                                          *)
(*   dict  v = sequence of <<key, value>> pairs in insertion order         *)
(***************************************************************************)
EXTENDS Integers, Sequences, FiniteSets, TLC

VARIABLES
    call,           \* the method under way: "_fetch_all", "get_supplies",
                    \* "process_top_products", "process_hourly_sales",
                    \* "save_data" or "save_all_data"
    upstream,       \* the behaviour of the remote API during this call
    pc,             \* "request" | "sleep" | "done" | "start" | "idle" | "sync" |
                    \* "returned" | "raised"
    offset,         \* local variable offset of _fetch_all
    all_items,      \* local variable all_items of _fetch_all (its return value)
    reqlog,         \* the requests issued so far: their limit and offset
    held,           \* history: len(all_items) when each request was issued
    sleeps,         \* number of time.sleep(0.3) calls made
    reports,        \* st.warning / st.error calls made, in order
    last,           \* the outcome of the most recent request
    pages,          \* history: the batches appended to all_items, in order
    beyond,         \* TRUE once the loop runs past the tracked requests
    exc,            \* the exception that escaped to the caller, if any
    flattened_rows, \* get_supplies: the rows handed to pd.DataFrame
    df,             \* the DataFrame passed in, a sequence of rows
    result,         \* DataProcessor: the rows of the aggregate returned
    sheets,         \* GoogleSheetHandler: the worksheets, each a title and its rows
    saves,          \* history: the save_data calls made, in order
    synclog         \* save_all_data: the entities fetched so far, in order

vars == <<call, upstream, pc, offset, all_items, reqlog, held, sleeps, reports,
          last, pages, beyond, exc, flattened_rows, df, result, sheets, saves,
          synclog>>

\* the variables of PosterClient and those of DataProcessor
fetchVars == <<upstream, offset, all_items, reqlog, held, sleeps, last, pages,
               beyond, flattened_rows>>
processorVars == <<df, result>>
sheetVars == <<sheets, saves, synclog>>

-----------------------------------------------------------------------------
(* Bounds of the model *)

\* requests of one call whose effect on all_items is tracked exactly
MaxRequests == 3
\* longest short list payload served by the arbitrary upstream
MaxLen == 2
\* most supply documents on the page served to get_supplies
MaxSupplies == 2
\* most entries in one supply's ingredients list
MaxChildren == 2
\* most product lines in the receipts handed to process_top_products
MaxProducts == 3
\* most receipts handed to process_hourly_sales
MaxReceipts == 3
\* most save_data calls made on one spreadsheet
MaxSaves == 3

(* Program constants *)

\* params["limit"] = 1000
Limit == 1000
\* response.status_code != 200
HttpOk == 200
\* .head(10)
TopN == 10

-----------------------------------------------------------------------------
(* JSON values *)

JInt(n) == [t |-> "int", v |-> n]
JBool(b) == [t |-> "bool", v |-> b]
JNull == [t |-> "null", v |-> 0]
JFloat(h) == [t |-> "float", v |-> h]
JStr(cs) == [t |-> "str", v |-> cs]
JList(xs) == [t |-> "list", v |-> xs]
JDict(kvs) == [t |-> "dict", v |-> kvs]

\* isinstance(x, (int, bool)): bool is a subclass of int
IsIntOrBool(x) == x.t \in {"int", "bool"}
IsNone(x) == x.t = "null"
IsList(x) == x.t = "list"
IsDict(x) == x.t = "dict"

\* key in d
HasKey(d, k) == \E i \in 1..Len(d.v) : d.v[i][1] = k

\* d.get(k, default)
DictGet(d, k, default) ==
    IF HasKey(d, k)
    THEN d.v[CHOOSE i \in 1..Len(d.v) : d.v[i][1] = k][2]
    ELSE default

\* list(d.values())
DictValues(d) == [i \in 1..Len(d.v) |-> d.v[i][2]]

\* bool(x): what "not x" negates
Truthy(x) ==
    CASE x.t = "int" -> x.v # 0
      [] x.t = "bool" -> x.v
      [] x.t = "null" -> FALSE
      [] x.t = "float" -> x.v # 0
      [] OTHER -> Len(x.v) > 0

\* iter(x) exists: list, str and dict; numbers and None raise TypeError
IsIterable(x) == x.t \in {"list", "str", "dict"}

\* the elements iteration yields: a list's items, a str's characters,
\* a dict's keys (each key a str; its characters are not split further)
Iterate(x) ==
    CASE x.t = "list" -> x.v
      [] x.t = "str" -> [i \in 1..Len(x.v) |-> JStr(<<x.v[i]>>)]
      [] x.t = "dict" -> [i \in 1..Len(x.v) |-> JStr(<<x.v[i][1]>>)]

\* len(x) for the iterable types
PyLen(x) == Len(x.v)

SeqsUpTo(S, n) == UNION {[1..k -> S] : k \in 0..n}

RECURSIVE Concat(_)
Concat(ss) == IF ss = <<>> THEN <<>> ELSE Head(ss) \o Concat(Tail(ss))

Min(a, b) == IF a < b THEN a ELSE b
Max(a, b) == IF a > b THEN a ELSE b

-----------------------------------------------------------------------------
(* One iteration of the while loop of _fetch_all *)

Break(report) == [exit |-> "break", items |-> <<>>, exc |-> "none", report |-> report]
Raise(e) == [exit |-> "raise", items |-> <<>>, exc |-> e, report |-> "none"]

\* step 6: the batch taken from the unwrapped response value
NormalizeBatch(raw_response) ==
    IF IsList(raw_response) THEN raw_response
    ELSE IF IsDict(raw_response)
         THEN IF HasKey(raw_response, "data")
              THEN DictGet(raw_response, "data", JNull)
              ELSE JList(DictValues(raw_response))
         ELSE JList(<<>>)

\* faulty variant: the short-page test written "<=", so a page of exactly Limit
\* items ends the loop
AccumulateBatchLe(batch) ==
    IF ~Truthy(batch) THEN Break("none")
    ELSE IF ~IsIterable(batch) THEN Raise("TypeError")
    ELSE [exit |-> IF PyLen(batch) <= Limit THEN "break" ELSE "next",
          items |-> Iterate(batch), exc |-> "none", report |-> "none"]

\* "if not batch: break", all_items.extend(batch), the short-page test
AccumulateBatch(batch) ==
    IF ~Truthy(batch) THEN Break("none")
    ELSE IF ~IsIterable(batch) THEN Raise("TypeError")
    ELSE [exit |-> IF PyLen(batch) < Limit THEN "break" ELSE "next",
          items |-> Iterate(batch), exc |-> "none", report |-> "none"]

\* faulty variant: "continue" written for "break" on a sentinel response value
ResponseValueStepContinue(raw_response) ==
    IF IsIntOrBool(raw_response) \/ IsNone(raw_response)
    THEN [exit |-> "next", items |-> <<>>, exc |-> "none", report |-> "none"]
    ELSE AccumulateBatch(NormalizeBatch(raw_response))

\* step 5: the value of "response" is None, 0 or False
ResponseValueStep(raw_response) ==
    IF IsIntOrBool(raw_response) \/ IsNone(raw_response)
    THEN Break("none")
    ELSE AccumulateBatch(NormalizeBatch(raw_response))

\* step 4: raw_response = data if isinstance(data, list) else data.get("response")
ExtractResponse(data) ==
    IF IsList(data) THEN ResponseValueStep(data)
    ELSE IF IsDict(data) THEN ResponseValueStep(DictGet(data, "response", JNull))
    ELSE Raise("AttributeError")

\* step 3: an error envelope; data['error'].get(...) needs a dict
ApiErrorStep(data) ==
    IF IsDict(data) /\ HasKey(data, "error")
    THEN IF IsDict(DictGet(data, "error", JNull))
         THEN Break("warning")
         ELSE Raise("AttributeError")
    ELSE ExtractResponse(data)

\* step 2: the decoded body itself is 0, False or None
TopLevelStep(data) ==
    IF IsIntOrBool(data) \/ IsNone(data)
    THEN Break("none")
    ELSE ApiErrorStep(data)

\* faulty variant: the status check left out, the body decoded whatever the status
TryBodyNoStatusCheck(resp) ==
    IF resp.kind = "neterr" THEN Raise("RequestException")
    ELSE IF resp.kind = "badjson" THEN Break("warning")
    ELSE TopLevelStep(resp.data)

\* requests.get, the status check and response.json()
TryBody(resp) ==
    IF resp.kind = "neterr" THEN Raise("RequestException")
    ELSE IF resp.code # HttpOk THEN Break("warning")
    ELSE IF resp.kind = "badjson" THEN Break("warning")
    ELSE TopLevelStep(resp.data)

\* faulty variant: only the "except RequestException" clause
CatchesRequestOnly(e) == e = "RequestException"

\* the exception classes the two except clauses catch
Catches(e) == e \in {"RequestException", "AttributeError", "TypeError", "ValueError"}

\* except RequestException / except Exception: st.error and break
ExceptClauses(o) ==
    IF o.exit = "raise" /\ Catches(o.exc)
    THEN Break("error")
    ELSE o

Iteration(resp) == ExceptClauses(TryBody(resp))

\* faulty variant: offsets counted from 1
RequestParamsOneBased(off) == [limit |-> Limit, offset |-> off + 1]

\* params["limit"] = 1000 and params["offset"] = offset of one request
RequestParams(off) == [limit |-> Limit, offset |-> off]

\* faulty variant: the offset never advances
NextOffsetStuck(off) == off

\* offset += params["limit"]
NextOffset(off) == off + Limit

-----------------------------------------------------------------------------
(* The upstream API *)

NetError == [kind |-> "neterr", code |-> 0, data |-> JNull]
\* a non-200 answer; its body is well-formed JSON that is never decoded
HttpError(c) == [kind |-> "json", code |-> c,
                 data |-> JDict(<< <<"response", JList(<<JDict(<< <<"id", JInt(1)>> >>)>>)>> >>)]
BadJson == [kind |-> "badjson", code |-> HttpOk, data |-> JNull]
Ok(data) == [kind |-> "json", code |-> HttpOk, data |-> data]

Envelope(x) == JDict(<< <<"response", x>> >>)
DataDict(x) == JDict(<< <<"data", x>> >>)

\* the i-th record of the upstream data set
Rec(i) == JDict(<< <<"id", JInt(i)>> >>)

\* the window [offset, offset + Limit) of a data set of n records
Window(n, off) == [i \in 1..Min(Limit, Max(n - off, 0)) |-> Rec(off + i)]

\* a page of Limit records starting at off (the data set never runs out)
FullPage(off) == Window(off + Limit, off)

\* a full page whose first element is not a mapping
MixedFullPage(off) == [i \in 1..Limit |-> IF i = 1 THEN JInt(7) ELSE Rec(off + i)]

\* remainders N mod Limit of the stable data sets tried
Remainders == {0, 1, 400, 999}
StableSizes == {k * Limit + r : k \in 0..(MaxRequests - 1), r \in Remainders}

\* a stable data set of n records served in disjoint offset/limit windows,
\* as a bare list or under the response envelope; an empty window may also
\* be served as a sentinel
StableResponses(n, off) ==
    LET w == Window(n, off) IN
      {Ok(JList(w)), Ok(Envelope(JList(w))), Ok(Envelope(DataDict(JList(w))))}
      \cup (IF w = <<>>
            THEN {Ok(JInt(0)), Ok(Envelope(JBool(FALSE))), Ok(Envelope(JNull))}
            ELSE {})

Elements == {Rec(1), Rec(2), JInt(7)}
ShortLists == {JList(s) : s \in SeqsUpTo(Elements, MaxLen)}
Scalars == {JInt(0), JInt(5), JBool(FALSE), JBool(TRUE), JNull,
            JStr(<<>>), JStr(<<"a", "b">>), JFloat(150)}
DataValues == ShortLists \cup {JStr(<<"a", "b">>), JInt(5), JInt(0), JNull,
                               JDict(<< <<"k", Rec(1)>> >>)}
IdMaps == {JDict(<<>>),
           JDict(<< <<"10", Rec(1)>>, <<"11", Rec(2)>> >>),
           JDict(<< <<"10", JInt(7)>> >>)}
ErrorDicts == {JDict(<< <<"error", JDict(<< <<"message", JStr(<<"x">>)>> >>)>> >>),
               JDict(<< <<"error", JDict(<<>>)>> >>),
               JDict(<< <<"error", JStr(<<"x">>)>> >>),
               JDict(<< <<"error", JDict(<<>>)>>, <<"response", JList(<<Rec(1)>>)>> >>)}

\* the payload shapes of a page shorter than Limit
ShortPayloads == Scalars \cup ShortLists \cup {DataDict(x) : x \in DataValues}
                 \cup IdMaps \cup ErrorDicts

Failures == {NetError, HttpError(500), HttpError(204), BadJson}

\* a page of Limit + 1 records: an upstream that ignores the limit parameter
OversizePage(off) == [i \in 1..(Limit + 1) |-> Rec(off + i)]

FullPageResponses(off) == {Ok(Envelope(JList(FullPage(off)))), Ok(JList(MixedFullPage(off))),
                           Ok(Envelope(JList(OversizePage(off))))}

\* an upstream free to answer each request with a failure, any short
\* payload with or without the envelope, or a full page
AnyResponses(off) ==
    Failures \cup {Ok(x) : x \in ShortPayloads}
             \cup {Ok(Envelope(x)) : x \in ShortPayloads}
             \cup FullPageResponses(off)

-----------------------------------------------------------------------------
(* storage.getSupplies documents *)

ItemGood == JDict(<< <<"ingredient_id", JInt(1)>>,
                     <<"ingredient_name", JStr(<<"m">>)>>,
                     <<"price", JStr(<<"1", "2", "5", "5", "0">>)>>,
                     <<"sum", JStr(<<"2", "5", "1", "0", "0">>)>>,
                     <<"num", JStr(<<"2">>)>> >>)
ItemBadPrice == JDict(<< <<"ingredient_id", JInt(2)>>,
                         <<"price", JStr(<<"a", "b", "c">>)>>,
                         <<"sum", JStr(<<"5", "0", "0", "0">>)>>,
                         <<"num", JInt(3)>> >>)
ItemNullNum == JDict(<< <<"ingredient_id", JInt(3)>>,
                        <<"price", JInt(700)>>,
                        <<"sum", JStr(<<"1", "4", "0", "0">>)>>,
                        <<"num", JNull>> >>)
Items == {ItemGood, ItemBadPrice}

IngredientLists == SeqsUpTo(Items, MaxChildren)
                   \cup {<<ItemNullNum>>, <<ItemGood, JInt(7)>>}
NonListIngredients == {JNull, JBool(FALSE), JInt(0), JInt(5), JStr(<<>>),
                       JStr(<<"a", "b">>), JFloat(150), JDict(<< <<"k", JInt(1)>> >>)}

SupplyDoc(v) == JDict(<< <<"supply_id", JInt(11)>>,
                         <<"date", JStr(<<"d">>)>>,
                         <<"supplier_id", JInt(5)>>,
                         <<"ingredients", v>> >>)
SupplyNoIngredients == JDict(<< <<"supply_id", JInt(12)>> >>)

Supplies == {SupplyDoc(JList(l)) : l \in IngredientLists}
            \cup {SupplyDoc(v) : v \in NonListIngredients}
            \cup {SupplyNoIngredients, JInt(7)}

SupplyResponses == {Ok(Envelope(JList(ps))) : ps \in SeqsUpTo(Supplies, MaxSupplies)}

Respond(up, off) ==
    CASE up.kind = "stable" -> StableResponses(up.n, off)
      [] up.kind = "any" -> AnyResponses(off)
      [] up.kind = "supplies" -> SupplyResponses

Upstreams(c) ==
    IF c = "get_supplies"
    THEN {[kind |-> "supplies", n |-> 0]}
    ELSE {[kind |-> "stable", n |-> n] : n \in StableSizes}
         \cup {[kind |-> "any", n |-> 0]}

NoResponse == [kind |-> "none", code |-> 0, data |-> JNull]
NoExc == [fn |-> "none", type |-> "none"]

-----------------------------------------------------------------------------
(* get_supplies: flattening *)

Digits == {"0", "1", "2", "3", "4", "5", "6", "7", "8", "9"}
DigitVal(c) ==
    CASE c = "0" -> 0 [] c = "1" -> 1 [] c = "2" -> 2 [] c = "3" -> 3
      [] c = "4" -> 4 [] c = "5" -> 5 [] c = "6" -> 6 [] c = "7" -> 7
      [] c = "8" -> 8 [] c = "9" -> 9

RECURSIVE ParseDigits(_)
ParseDigits(cs) ==
    IF cs = <<>> THEN 0
    ELSE 10 * ParseDigits(SubSeq(cs, 1, Len(cs) - 1)) + DigitVal(cs[Len(cs)])

\* float(x), in hundredths: numbers convert, a str converts when it is a
\* numeral, any other str is a ValueError, None and containers a TypeError
ToFloat(x) ==
    CASE x.t = "int" -> [err |-> "none", val |-> 100 * x.v]
      [] x.t = "bool" -> [err |-> "none", val |-> IF x.v THEN 100 ELSE 0]
      [] x.t = "float" -> [err |-> "none", val |-> x.v]
      [] x.t = "str" ->
           IF Len(x.v) > 0 /\ \A i \in 1..Len(x.v) : x.v[i] \in Digits
           THEN [err |-> "none", val |-> 100 * ParseDigits(x.v)]
           ELSE [err |-> "ValueError", val |-> 0]
      [] OTHER -> [err |-> "TypeError", val |-> 0]

\* the try block around the three conversions and its except clause
ConvertItem(item) ==
    LET p == ToFloat(DictGet(item, "price", JInt(0)))
        s == ToFloat(DictGet(item, "sum", JInt(0)))
        n == ToFloat(DictGet(item, "num", JInt(0)))
    IN IF p.err = "none" /\ s.err = "none" /\ n.err = "none"
       THEN [price |-> JFloat(p.val \div 100),
             total_sum |-> JFloat(s.val \div 100),
             num |-> JFloat(n.val)]
       ELSE [price |-> JInt(0), total_sum |-> JInt(0), num |-> JInt(0)]

\* the dict appended to flattened_rows
Row(supply, item) ==
    LET c == ConvertItem(item) IN
      [supply_id |-> DictGet(supply, "supply_id", JNull),
       date |-> DictGet(supply, "date", JNull),
       supplier_id |-> DictGet(supply, "supplier_id", JNull),
       ingredient_id |-> DictGet(item, "ingredient_id", JNull),
       ingredient_name |-> DictGet(item, "ingredient_name", JNull),
       quantity |-> c.num,
       unit_price |-> c.price,
       total_sum |-> c.total_sum]

\* "if not ingredients or isinstance(ingredients, (int, bool)): continue"
SkipsSupply(ingredients) == ~Truthy(ingredients) \/ IsIntOrBool(ingredients)

\* faulty variant: the row appended after the inner loop instead of inside it, so
\* a supply gives one row, for its last ingredient
FlattenSupplyLastOnly(supply) ==
    IF ~IsDict(supply) THEN [exc |-> "AttributeError", rows |-> <<>>]
    ELSE LET ingredients == DictGet(supply, "ingredients", JList(<<>>)) IN
         IF SkipsSupply(ingredients) THEN [exc |-> "none", rows |-> <<>>]
         ELSE IF ~IsIterable(ingredients) THEN [exc |-> "TypeError", rows |-> <<>>]
         ELSE LET its == Iterate(ingredients) IN
              IF \E i \in 1..Len(its) : ~IsDict(its[i])
              THEN [exc |-> "AttributeError", rows |-> <<>>]
              ELSE [exc |-> "none", rows |-> <<Row(supply, its[Len(its)])>>]

\* one pass of "for supply in raw_data": the rows it appends, or the
\* exception that leaves the loop (supply.get and item.get need a dict,
\* the inner for needs an iterable)
FlattenSupply(supply) ==
    IF ~IsDict(supply) THEN [exc |-> "AttributeError", rows |-> <<>>]
    ELSE LET ingredients == DictGet(supply, "ingredients", JList(<<>>)) IN
         IF SkipsSupply(ingredients) THEN [exc |-> "none", rows |-> <<>>]
         ELSE IF ~IsIterable(ingredients) THEN [exc |-> "TypeError", rows |-> <<>>]
         ELSE LET its == Iterate(ingredients) IN
              IF \E i \in 1..Len(its) : ~IsDict(its[i])
              THEN [exc |-> "AttributeError", rows |-> <<>>]
              ELSE [exc |-> "none", rows |-> [i \in 1..Len(its) |-> Row(supply, its[i])]]

\* the whole loop over raw_data
Flatten(raw_data) ==
    LET per == [i \in 1..Len(raw_data) |-> FlattenSupply(raw_data[i])] IN
      IF \E i \in 1..Len(per) : per[i].exc # "none"
      THEN [exc |-> per[CHOOSE i \in 1..Len(per) :
                          /\ per[i].exc # "none"
                          /\ \A j \in 1..(i - 1) : per[j].exc = "none"].exc,
            rows |-> <<>>]
      ELSE [exc |-> "none", rows |-> Concat([i \in 1..Len(per) |-> per[i].rows])]

-----------------------------------------------------------------------------
(* DataProcessor: the DataFrame helpers *)

\* a DataFrame built from a list of records is the sequence of its rows;
\* its columns are the keys that occur in some row
DictKeys(d) == {d.v[i][1] : i \in 1..Len(d.v)}
Columns(rows) == UNION {DictKeys(rows[i]) : i \in 1..Len(rows)}

\* the cell of a row in a column: a key the row lacks is NaN
Cell(row, col) == DictGet(row, col, JNull)

\* DataFrame.explode of one cell: a list gives one row per element, an
\* empty list one NaN row, any other value stays as it is
ExplodeCell(v) ==
    IF IsList(v) THEN (IF v.v = <<>> THEN <<JNull>> ELSE v.v) ELSE <<v>>

Explode(rows, col) == Concat([i \in 1..Len(rows) |-> ExplodeCell(Cell(rows[i], col))])

\* dropna
DropNa(xs) == SelectSeq(xs, LAMBDA x : ~IsNone(x))

NaN == [nan |-> TRUE, val |-> 0]
Num(n) == [nan |-> FALSE, val |-> n]

\* pd.to_numeric(x, errors='coerce'): numbers and numerals convert, all
\* else becomes NaN
ToNumeric(x) ==
    CASE x.t = "int" -> Num(x.v)
      [] x.t = "str" ->
           IF Len(x.v) > 0 /\ \A i \in 1..Len(x.v) : x.v[i] \in Digits
           THEN Num(ParseDigits(x.v))
           ELSE NaN
      [] OTHER -> NaN

\* x / 100, the quotient kept in hundredths
Div100(x) == IF x.nan THEN NaN ELSE Num((100 * x.val) \div 100)

\* Series.sum(): NaN entries are skipped
RECURSIVE SumSkipNa(_)
SumSkipNa(xs) ==
    IF xs = <<>> THEN 0
    ELSE (IF Head(xs).nan THEN 0 ELSE Head(xs).val) + SumSkipNa(Tail(xs))

\* the order of Python str comparison on lower-case letters
Alphabet == <<"a", "b", "c", "d", "e", "f", "g", "h", "i", "j", "k", "l">>
CharRank(c) == CHOOSE i \in 1..Len(Alphabet) : Alphabet[i] = c

RECURSIVE StrLess(_, _)
StrLess(s, t) ==
    IF t = <<>> THEN FALSE
    ELSE IF s = <<>> THEN TRUE
    ELSE IF s[1] = t[1] THEN StrLess(Tail(s), Tail(t))
    ELSE CharRank(s[1]) < CharRank(t[1])

\* groupby(key) with its default sort=True: the group keys in ascending order
RECURSIVE SortedKeys(_)
SortedKeys(S) ==
    IF S = {} THEN <<>>
    ELSE LET m == CHOOSE x \in S : \A y \in S \ {x} : StrLess(x.v, y.v)
         IN  <<m>> \o SortedKeys(S \ {m})

-----------------------------------------------------------------------------
(* DataProcessor.process_top_products *)

\* .head(n)
HeadRows(rows, n) == SubSeq(rows, 1, Min(n, Len(rows)))

\* groupby('name')[['count', 'payed_sum']].sum(): one row per name, in
\* ascending name order; rows whose name is NaN belong to no group
GroupByName(products) ==
    LET named == SelectSeq(products, LAMBDA q : ~IsNone(Cell(q, "name")))
        keys == SortedKeys({Cell(named[i], "name") : i \in 1..Len(named)})
        of(k) == SelectSeq(named, LAMBDA q : Cell(q, "name") = k)
        col(k, c) == [i \in 1..Len(of(k)) |-> ToNumeric(Cell(of(k)[i], c))]
    IN  [i \in 1..Len(keys) |->
           [name |-> keys[i],
            count |-> SumSkipNa(col(keys[i], "count")),
            payed_sum |-> SumSkipNa([j \in 1..Len(of(keys[i])) |->
                                       Div100(col(keys[i], "payed_sum")[j])])]]

\* sort_values(by='payed_sum', ascending=False) with the default
\* kind='quicksort', which is not a stable sort: every arrangement in
\* descending payed_sum order is a possible outcome
RECURSIVE SortValuesDesc(_)
SortValuesDesc(S) ==
    IF S = {} THEN {<<>>}
    ELSE UNION {{<<g>> \o r : r \in SortValuesDesc(S \ {g})} :
                g \in {x \in S : \A y \in S : y.payed_sum <= x.payed_sum}}

Range(f) == {f[i] : i \in DOMAIN f}

\* the outcomes of process_top_products(df): the rows returned and the
\* warning shown when the except clause was taken
TopProductsOutcomes(rows) ==
    IF "products" \notin Columns(rows)
    THEN {[rows |-> <<>>, report |-> "none"]}
    ELSE LET exploded == DropNa(Explode(rows, "products")) IN
         IF exploded = <<>>
         THEN {[rows |-> <<>>, report |-> "none"]}
         ELSE IF ~({"payed_sum", "count", "name"} \subseteq Columns(exploded))
         THEN {[rows |-> <<>>, report |-> "warning"]}
         ELSE {[rows |-> HeadRows(sorted, TopN), report |-> "none"] :
                 sorted \in SortValuesDesc(Range(GroupByName(exploded)))}

\* the receipts handed to process_top_products
Product(name, count, payed_sum) ==
    JDict(<< <<"name", JStr(name)>>, <<"count", count>>, <<"payed_sum", payed_sum>> >>)

ProductPool ==
    {Product(<<"a">>, JStr(<<"1">>), JStr(<<"5", "0", "0", "0">>)),
     Product(<<"b">>, JStr(<<"2">>), JStr(<<"5", "0", "0", "0">>)),
     Product(<<"c">>, JStr(<<"1">>), JStr(<<"9", "9", "0", "0">>)),
     Product(<<"b">>, JStr(<<"1">>), JStr(<<"x">>)),
     JDict(<< <<"name", JStr(<<"a">>)>>, <<"count", JInt(1)>> >>)}

Transaction(id, products) ==
    JDict(<< <<"transaction_id", JInt(id)>>, <<"products", products>> >>)

\* up to MaxProducts product lines spread over two receipts
SmallFrames ==
    UNION {{<<Transaction(1, JList(SubSeq(ps, 1, k))),
              Transaction(2, JList(SubSeq(ps, k + 1, Len(ps))))>> : k \in 0..Len(ps)} :
           ps \in SeqsUpTo(ProductPool, MaxProducts)}

\* one receipt with TopN + 2 products of distinct names, met in descending
\* name order; product i sells for 100 * i, except that product tie sells
\* for as much as product tie + 1
ManyProducts(tie) ==
    [i \in 1..(TopN + 2) |->
       Product(<<Alphabet[TopN + 3 - i]>>, JInt(1),
               JInt(100 * (IF i = tie THEN i + 1 ELSE i)))]

TopProductFrames ==
    SmallFrames
    \cup {<<Transaction(1, JList(ManyProducts(t)))>> : t \in {0, 2, 3}}
    \cup {<<>>,
          <<JDict(<< <<"transaction_id", JInt(1)>> >>)>>,
          <<Transaction(1, JNull), Transaction(2, JList(<<>>))>>}

-----------------------------------------------------------------------------
(* DataProcessor.process_hourly_sales *)

\* the number a run of decimal digits denotes, or -1 when a character of
\* it is not a digit
Field(cs, from, to) ==
    IF \A i \in from..to : cs[i] \in Digits
    THEN ParseDigits(SubSeq(cs, from, to))
    ELSE -1

\* pd.to_datetime on one 'YYYY-MM-DD HH:MM:SS' cell, reduced to the hour it
\* yields: None gives NaT, a well-formed stamp its hour, any other text
\* raises
ToDatetime(x) ==
    IF IsNone(x) THEN [err |-> "none", nat |-> TRUE, hour |-> 0]
    ELSE IF /\ x.t = "str"
            /\ Len(x.v) = 19
            /\ x.v[5] = "-" /\ x.v[8] = "-" /\ x.v[11] = " "
            /\ x.v[14] = ":" /\ x.v[17] = ":"
            /\ Field(x.v, 1, 4) >= 1
            /\ Field(x.v, 6, 7) \in 1..12
            /\ Field(x.v, 9, 10) \in 1..31
            /\ Field(x.v, 12, 13) \in 0..23
            /\ Field(x.v, 15, 16) \in 0..59
            /\ Field(x.v, 18, 19) \in 0..59
    THEN [err |-> "none", nat |-> FALSE, hour |-> Field(x.v, 12, 13)]
    ELSE [err |-> "ValueError", nat |-> TRUE, hour |-> 0]

\* groupby('hour') with its default sort=True: the hours in ascending order
RECURSIVE SortedHours(_)
SortedHours(S) ==
    IF S = {} THEN <<>>
    ELSE LET m == CHOOSE x \in S : \A y \in S : x <= y
         IN  <<m>> \o SortedHours(S \ {m})

\* pd.to_datetime(temp_df['date_close']) raises when one cell cannot be parsed
StampRaises(rows) ==
    \E i \in 1..Len(rows) : ToDatetime(Cell(rows[i], "date_close")).err # "none"

\* groupby('hour')[sum_col].sum(): rows whose hour is NaN are in no group
GroupByHour(rows, sum_col) ==
    LET stamp(i) == ToDatetime(Cell(rows[i], "date_close"))
        timed == {i \in 1..Len(rows) : ~stamp(i).nat}
        hours == SortedHours({stamp(i).hour : i \in timed})
        amount(i) == Div100(ToNumeric(Cell(rows[i], sum_col)))
        at(h) == [i \in 1..Len(rows) |->
                    IF i \in timed /\ stamp(i).hour = h THEN amount(i) ELSE NaN]
    IN  [k \in 1..Len(hours) |-> [hour |-> hours[k], total |-> SumSkipNa(at(hours[k]))]]

\* process_hourly_sales(df): the rows returned and the error shown when
\* the except clause was taken
HourlySales(rows) ==
    LET sum_col == IF "payed_sum" \in Columns(rows) THEN "payed_sum" ELSE "sum" IN
      IF "date_close" \notin Columns(rows) \/ StampRaises(rows)
         \/ sum_col \notin Columns(rows)
      THEN [rows |-> <<>>, report |-> "error"]
      ELSE [rows |-> GroupByHour(rows, sum_col), report |-> "none"]

\* the receipts handed to process_hourly_sales
Stamp(day, hh) ==
    JStr(<<"2", "0", "2", "4", "-", "0", "1", "-", "0", day, " ",
           hh[1], hh[2], ":", "1", "5", ":", "0", "0">>)

Receipt(date_close, col, amount) ==
    JDict(<< <<"date_close", date_close>>, <<col, amount>> >>)

ReceiptPool ==
    {Receipt(Stamp("1", <<"1", "0">>), "payed_sum", JStr(<<"5", "0", "0", "0">>)),
     Receipt(Stamp("1", <<"0", "9">>), "payed_sum", JStr(<<"2", "5", "0", "0">>)),
     Receipt(Stamp("2", <<"1", "0">>), "payed_sum", JStr(<<"x">>)),
     Receipt(JNull, "payed_sum", JStr(<<"3", "0", "0">>)),
     Receipt(JStr(<<"b", "a", "d">>), "payed_sum", JStr(<<"7", "0", "0">>)),
     Receipt(Stamp("1", <<"2", "5">>), "payed_sum", JStr(<<"1", "0", "0">>))}

HourlyFrames ==
    SeqsUpTo(ReceiptPool, MaxReceipts)
    \cup {<<Receipt(Stamp("1", <<"2", "3">>), "sum", JInt(1200)),
            Receipt(Stamp("2", <<"0", "0">>), "sum", JInt(300))>>,
          <<JDict(<< <<"payed_sum", JInt(100)>> >>)>>,
          <<JDict(<< <<"date_close", Stamp("1", <<"1", "0">>)>> >>)>>}

-----------------------------------------------------------------------------
(* GoogleSheetHandler: _archive_sheet and save_data *)

\* str(n) for a natural number
DigitChar(d) == CHOOSE c \in Digits : DigitVal(c) = d

RECURSIVE Decimal(_)
Decimal(n) == IF n < 10 THEN <<DigitChar(n)>> ELSE Decimal(n \div 10) \o <<DigitChar(n % 10)>>

\* a worksheet title is the sequence of the pieces it is formatted from
Title(sheet_name) == <<sheet_name>>
\* f"{sheet_name}_old"
BaseBackupName(sheet_name) == Title(sheet_name) \o <<"_old">>
\* f"{base_backup_name}_{counter}"
NumberedName(base_backup_name, counter) == base_backup_name \o <<"_">> \o Decimal(counter)

\* spreadsheet.worksheet(title) finds a sheet; WorksheetNotFound otherwise
HasSheet(ws, title) == \E i \in 1..Len(ws) : ws[i].title = title
SheetIndex(ws, title) == CHOOSE i \in 1..Len(ws) : ws[i].title = title

\* the while loop that looks for a free backup name
RECURSIVE FreeName(_, _, _, _)
FreeName(ws, base_backup_name, new_name, counter) ==
    IF HasSheet(ws, new_name)
    THEN FreeName(ws, base_backup_name, NumberedName(base_backup_name, counter), counter + 1)
    ELSE new_name

\* df.astype(str): each cell becomes its decimal text
AsStr(d) == [i \in 1..Len(d) |-> Decimal(d[i])]

\* what the Google Sheets API does to the calls of one save_data:
\* lookup   the first worksheet() call of _archive_sheet answers
\* rename   update_title succeeds
\* add      add_worksheet succeeds, raises APIError or raises another error
\* clear    worksheet.clear() succeeds
\* write    set_with_dataframe succeeds
ApiOutcomes ==
    [lookup : BOOLEAN, rename : BOOLEAN, add : {"ok", "APIError", "other"},
     clear : BOOLEAN, write : BOOLEAN]

\* _archive_sheet(sheet_name)
ArchiveSheet(ws, sheet_name, api) ==
    IF ~api.lookup
    THEN [sheets |-> ws, exc |-> "APIError", report |-> "none"]
    ELSE IF ~HasSheet(ws, Title(sheet_name))
    THEN [sheets |-> ws, exc |-> "none", report |-> "none"]
    ELSE LET new_name == FreeName(ws, BaseBackupName(sheet_name),
                                  BaseBackupName(sheet_name), 1)
             i == SheetIndex(ws, Title(sheet_name))
         IN  IF api.rename
             THEN [sheets |-> [ws EXCEPT ![i].title = new_name],
                   exc |-> "none", report |-> "none"]
             ELSE [sheets |-> ws, exc |-> "none", report |-> "warning"]

\* the inner try of save_data: add_worksheet, or on APIError the existing
\* sheet of that title, cleared
NewWorksheet(ws, sheet_name, api) ==
    IF api.add = "other"
    THEN [sheets |-> ws, exc |-> "Exception"]
    ELSE IF api.add = "ok" /\ ~HasSheet(ws, Title(sheet_name))
    THEN [sheets |-> Append(ws, [title |-> Title(sheet_name), rows |-> <<>>]),
          exc |-> "none"]
    ELSE IF ~HasSheet(ws, Title(sheet_name))
    THEN [sheets |-> ws, exc |-> "WorksheetNotFound"]
    ELSE IF ~api.clear
    THEN [sheets |-> ws, exc |-> "APIError"]
    ELSE [sheets |-> [ws EXCEPT ![SheetIndex(ws, Title(sheet_name))].rows = <<>>],
          exc |-> "none"]

Failed(ws, reports_) == [sheets |-> ws, ret |-> FALSE, reports |-> reports_]

\* save_data(df, sheet_name): the worksheets afterwards, the value
\* returned and the st.warning / st.error calls made
SaveDataResult(ws, d, sheet_name, api) ==
    IF d = <<>> THEN Failed(ws, <<>>)
    ELSE LET a == ArchiveSheet(ws, sheet_name, api)
             shown == IF a.report = "none" THEN <<>> ELSE <<a.report>>
         IN  IF a.exc # "none" THEN Failed(a.sheets, shown \o <<"error">>)
             ELSE LET n == NewWorksheet(a.sheets, sheet_name, api) IN
                  IF n.exc # "none" THEN Failed(n.sheets, shown \o <<"error">>)
                  ELSE IF ~api.write THEN Failed(n.sheets, shown \o <<"error">>)
                  ELSE [sheets |-> [n.sheets EXCEPT
                                      ![SheetIndex(n.sheets, Title(sheet_name))].rows = AsStr(d)],
                        ret |-> TRUE, reports |-> shown]

\* the rows a title holds, for the history of saves
NoSheet == [existed |-> FALSE, rows |-> <<>>]
Holding(ws, title) ==
    IF HasSheet(ws, title)
    THEN [existed |-> TRUE, rows |-> ws[SheetIndex(ws, title)].rows]
    ELSE NoSheet

\* the arguments of the save_data calls tried
SheetNames == {"Transactions", "Products"}
SaveFrames == {<<>>, <<1>>, <<2, 30>>}

-----------------------------------------------------------------------------
(* GoogleSheetHandler.save_all_data *)

\* the process_entity calls of save_all_data, in order: the sheet name and
\* the attribute of client that is passed as fetch_func
Entities ==
    <<[name |-> "Transactions", method |-> "get_transactions"],
      [name |-> "Products", method |-> "get_menu_products"],
      [name |-> "Ingredients", method |-> "get_menu_ingredients"],
      [name |-> "Suppliers", method |-> "get_suppliers"],
      [name |-> "Employees", method |-> "get_employees"],
      [name |-> "WasteReasons", method |-> "get_waste_reasons"],
      [name |-> "Leftovers", method |-> "get_leftovers"],
      [name |-> "Supplies", method |-> "get_supplies"],
      [name |-> "Wastes", method |-> "get_wastes"],
      [name |-> "WriteOffs", method |-> "get_ingredient_write_offs"],
      [name |-> "Inventories", method |-> "get_inventories"]>>

\* the public methods class PosterClient defines
PosterClientMethods ==
    {"get_transactions", "get_menu_products", "get_menu_ingredients", "get_employees",
     "get_wastes", "get_inventories", "get_supplies"}

\* what a public method hands back: the whole data set, a prefix of it
\* after a failed page (reported by st.error), nothing at all, or -- from
\* the flattening loop of get_supplies only -- an exception
FetchOutcomes(method) ==
    {[exc |-> "none", rows |-> <<1, 2>>, report |-> "none"],
     [exc |-> "none", rows |-> <<1>>, report |-> "error"],
     [exc |-> "none", rows |-> <<>>, report |-> "error"],
     [exc |-> "none", rows |-> <<>>, report |-> "none"]}
    \cup (IF method = "get_supplies"
          THEN {[exc |-> e, rows |-> <<>>, report |-> "none"] :
                  e \in {"AttributeError", "TypeError"}}
          ELSE {})

\* the spreadsheet a sync starts on: new, or holding the sheets of an
\* earlier sync
EarlierSync ==
    <<[title |-> Title("Transactions"), rows |-> AsStr(<<7>>)],
      [title |-> Title("Products"), rows |-> AsStr(<<8>>)],
      [title |-> Title("Ingredients"), rows |-> AsStr(<<9>>)]>>

-----------------------------------------------------------------------------
(* The state machine *)

\* no request made yet
NoUpstream == [kind |-> "none", n |-> 0]

\* a call of _fetch_all or get_supplies
InitFetch ==
    /\ call \in {"_fetch_all", "get_supplies"}
    /\ upstream \in Upstreams(call)
    /\ pc = "request"
    /\ offset = 0
    /\ all_items = <<>>
    /\ reqlog = <<>>
    /\ held = <<>>
    /\ sleeps = 0
    /\ reports = <<>>
    /\ last = NoResponse
    /\ pages = <<>>
    /\ beyond = FALSE
    /\ exc = NoExc
    /\ flattened_rows = <<>>
    /\ df = <<>>
    /\ result = <<>>
    /\ sheets = <<>>
    /\ saves = <<>>
    /\ synclog = <<>>

\* a call of process_top_products(df) or process_hourly_sales(df)
InitProcessor ==
    /\ \/ call = "process_top_products" /\ df \in TopProductFrames
       \/ call = "process_hourly_sales" /\ df \in HourlyFrames
    /\ pc = "start"
    /\ result = <<>>
    /\ reports = <<>>
    /\ exc = NoExc
    /\ upstream = NoUpstream /\ offset = 0 /\ all_items = <<>> /\ reqlog = <<>>
    /\ held = <<>> /\ sleeps = 0 /\ last = NoResponse /\ pages = <<>>
    /\ beyond = FALSE /\ flattened_rows = <<>>
    /\ sheets = <<>> /\ saves = <<>> /\ synclog = <<>>

\* a GoogleSheetHandler on a new spreadsheet, before its first save_data,
\* or at the start of save_all_data(client, date_from, date_to) with a
\* PosterClient
InitHandler ==
    /\ \/ call = "save_data" /\ pc = "idle" /\ sheets = <<>>
       \/ call = "save_all_data" /\ pc = "sync" /\ sheets \in {<<>>, EarlierSync}
    /\ saves = <<>>
    /\ synclog = <<>>
    /\ df = <<>>
    /\ result = <<>>
    /\ reports = <<>>
    /\ exc = NoExc
    /\ upstream = NoUpstream /\ offset = 0 /\ all_items = <<>> /\ reqlog = <<>>
    /\ held = <<>> /\ sleeps = 0 /\ last = NoResponse /\ pages = <<>>
    /\ beyond = FALSE /\ flattened_rows = <<>>

Init == InitFetch \/ InitProcessor \/ InitHandler

\* one pass of the while loop: the request at the current offset and
\* everything up to the break or to "offset += limit"
Request ==
    /\ pc = "request"
    /\ ~beyond
    /\ Len(reqlog) < MaxRequests
    /\ \E resp \in Respond(upstream, offset) :
         LET o == Iteration(resp) IN
           /\ reqlog' = Append(reqlog, RequestParams(offset))
           /\ held' = Append(held, Len(all_items))
           /\ last' = resp
           /\ reports' = IF o.report = "none" THEN reports ELSE Append(reports, o.report)
           /\ IF o.exit = "raise"
              THEN /\ pc' = "raised"
                   /\ exc' = [fn |-> "_fetch_all", type |-> o.exc]
                   /\ UNCHANGED <<all_items, pages, offset>>
              ELSE /\ all_items' = all_items \o o.items
                   /\ pages' = IF o.items = <<>> THEN pages ELSE Append(pages, o.items)
                   /\ offset' = IF o.exit = "next" THEN NextOffset(offset) ELSE offset
                   /\ pc' = IF o.exit = "next" THEN "sleep" ELSE "done"
                   /\ UNCHANGED exc
    /\ UNCHANGED <<call, upstream, sleeps, beyond, flattened_rows>>
    /\ UNCHANGED <<processorVars, sheetVars>>

\* the same pass once MaxRequests requests have been made, against an
\* upstream that keeps serving full pages: the loop goes on, and the
\* accumulator, offset and request log are no longer tracked
RequestBeyond ==
    /\ pc = "request"
    /\ Len(reqlog) = MaxRequests
    /\ \E resp \in Respond(upstream, offset) :
         /\ Iteration(resp).exit = "next"
         /\ last' = resp
    /\ beyond' = TRUE
    /\ pc' = "sleep"
    /\ UNCHANGED <<call, upstream, offset, all_items, reqlog, held, sleeps, reports,
                   pages, exc, flattened_rows>>
    /\ UNCHANGED <<processorVars, sheetVars>>

\* time.sleep(0.3), then back to the top of the loop
Sleep ==
    /\ pc = "sleep"
    /\ pc' = "request"
    /\ sleeps' = IF beyond THEN sleeps ELSE sleeps + 1
    /\ UNCHANGED <<call, upstream, offset, all_items, reqlog, held, reports, last,
                   pages, beyond, exc, flattened_rows>>
    /\ UNCHANGED <<processorVars, sheetVars>>

\* get_supplies after its _fetch_all has returned: the flattening loop
\* and pd.DataFrame(flattened_rows)
GetSupplies ==
    /\ call = "get_supplies"
    /\ pc = "done"
    /\ LET f == Flatten(all_items) IN
         /\ exc' = IF f.exc = "none" THEN NoExc
                   ELSE [fn |-> "get_supplies", type |-> f.exc]
         /\ flattened_rows' = f.rows
         /\ pc' = IF f.exc = "none" THEN "returned" ELSE "raised"
    /\ UNCHANGED <<call, upstream, offset, all_items, reqlog, held, sleeps, reports,
                   last, pages, beyond>>
    /\ UNCHANGED <<processorVars, sheetVars>>

\* process_top_products from its first line to its return
ProcessTopProducts ==
    /\ call = "process_top_products"
    /\ pc = "start"
    /\ \E o \in TopProductsOutcomes(df) :
         /\ result' = o.rows
         /\ reports' = IF o.report = "none" THEN reports ELSE Append(reports, o.report)
    /\ pc' = "returned"
    /\ UNCHANGED <<call, exc, df, fetchVars, sheetVars>>

\* process_hourly_sales from its first line to its return
ProcessHourlySales ==
    /\ call = "process_hourly_sales"
    /\ pc = "start"
    /\ LET o == HourlySales(df) IN
         /\ result' = o.rows
         /\ reports' = IF o.report = "none" THEN reports ELSE Append(reports, o.report)
    /\ pc' = "returned"
    /\ UNCHANGED <<call, exc, df, fetchVars, sheetVars>>

\* one call save_data(df, sheet_name), from its first line to its return
SaveData ==
    /\ call = "save_data"
    /\ pc = "idle"
    /\ Len(saves) < MaxSaves
    /\ \E d \in SaveFrames, sheet_name \in SheetNames, api \in ApiOutcomes :
         LET r == SaveDataResult(sheets, d, sheet_name, api) IN
           /\ df' = d
           /\ sheets' = r.sheets
           /\ reports' = reports \o r.reports
           /\ saves' = Append(saves, [name |-> sheet_name, df |-> d, ret |-> r.ret,
                                      before |-> Holding(sheets, Title(sheet_name))])
    /\ UNCHANGED <<call, pc, exc, result, fetchVars, synclog>>

\* one statement process_entity(name, client.<method>, ...) of
\* save_all_data: the attribute lookup on client, the fetch, and save_data
\* when the frame is not empty; after the last one the sync returns
ProcessEntity ==
    /\ call = "save_all_data"
    /\ pc = "sync"
    /\ LET e == Entities[Len(synclog) + 1] IN
         IF e.method \notin PosterClientMethods
         THEN /\ pc' = "raised"
              /\ exc' = [fn |-> "save_all_data", type |-> "AttributeError"]
              /\ UNCHANGED <<reports, df, sheets, saves, synclog>>
         ELSE \E f \in FetchOutcomes(e.method), api \in ApiOutcomes :
                IF f.exc # "none"
                THEN /\ pc' = "raised"
                     /\ exc' = [fn |-> e.method, type |-> f.exc]
                     /\ UNCHANGED <<reports, df, sheets, saves, synclog>>
                ELSE LET r == SaveDataResult(sheets, f.rows, e.name, api)
                         shown == IF f.report = "none" THEN <<>> ELSE <<f.report>>
                     IN  /\ df' = f.rows
                         /\ sheets' = r.sheets
                         /\ reports' = reports \o shown \o r.reports
                         /\ saves' = IF f.rows = <<>> THEN saves
                                      ELSE Append(saves, [name |-> e.name, df |-> f.rows,
                                                          ret |-> r.ret,
                                                          before |-> Holding(sheets, Title(e.name))])
                         /\ synclog' = Append(synclog, [name |-> e.name, df |-> f.rows,
                                                        cut |-> f.report # "none",
                                                        saved |-> r.ret])
                         /\ pc' = IF Len(synclog') = Len(Entities) THEN "returned" ELSE "sync"
                         /\ UNCHANGED exc
    /\ UNCHANGED <<call, result, fetchVars>>

Next ==
    \/ Request \/ RequestBeyond \/ Sleep \/ GetSupplies
    \/ ProcessTopProducts \/ ProcessHourlySales
    \/ SaveData \/ ProcessEntity

Spec == Init /\ [][Next]_vars

\* _fetch_all is sequential, blocking code: a pass of its loop or a sleep
\* that can be taken is taken
FairSpec == Spec /\ WF_vars(Request) /\ WF_vars(RequestBeyond) /\ WF_vars(Sleep)

-----------------------------------------------------------------------------
(* Properties *)

\* the items the most recent request appended to all_items
LastBatch == IF Len(pages) = Len(reqlog) /\ Len(pages) > 0 THEN pages[Len(pages)] ELSE <<>>

\* 0, False or None
IsSentinel(x) == IsIntOrBool(x) \/ IsNone(x)

\* a network error, a non-200 status, an undecodable body or an error envelope
IsFailedPage(r) ==
    \/ r.kind \in {"neterr", "badjson"}
    \/ r.kind = "json" /\ r.code # HttpOk
    \/ r.kind = "json" /\ r.code = HttpOk /\ IsDict(r.data) /\ HasKey(r.data, "error")

\* C1: against a stable data set of N records served in disjoint
\* offset/limit windows, _fetch_all returns exactly records 1..N in upstream
\* order, each once, after exactly floor(N/1000)+1 requests; while it is
\* still looping it has made at most floor(N/1000) requests.
C1_StableFetchExact ==
    upstream.kind = "stable" =>
        /\ ~beyond
        /\ pc \in {"request", "sleep", "done"}
        /\ pc # "done" => Len(reqlog) <= upstream.n \div Limit
        /\ pc = "done" =>
             /\ all_items = [i \in 1..upstream.n |-> Rec(i)]
             /\ Len(reqlog) = (upstream.n \div Limit) + 1

\* pages of sizes 1000, 1000, 400: 2400 records after 3 requests
C1_Witness ==
    /\ upstream.kind = "stable" /\ upstream.n = 2400
    /\ pc = "done"
    /\ Len(all_items) = 2400
    /\ Len(reqlog) = 3
    /\ Len(pages[1]) = 1000 /\ Len(pages[2]) = 1000 /\ Len(pages[3]) = 400

\* C2: when the k-th request ends in a network error, a non-200 status, an
\* undecodable body or an error envelope, the loop has stopped without
\* raising, that request appended nothing, and the list returned is the
\* concatenation of the batches of pages 1..k-1.
C2_FailureReturnsPrefix ==
    (Len(reqlog) >= 1 /\ ~beyond /\ IsFailedPage(last)) =>
        /\ pc = "done"
        /\ exc = NoExc
        /\ Len(pages) = Len(reqlog) - 1
        /\ all_items = Concat(pages)
        /\ \A i \in 1..Len(pages) : Len(pages[i]) >= Limit

\* the third request fails after two full pages
C2_Witness ==
    /\ Len(reqlog) = 3
    /\ IsFailedPage(last)
    /\ pc = "done"
    /\ Len(pages) = 2
    /\ Len(all_items) = 2 * Limit

\* C3 (as claimed): _fetch_all terminates for every upstream behaviour:
\* every call eventually leaves the loop.
C3_AlwaysTerminates == <>(pc \notin {"request", "sleep"})

\* C3 (amended): the loop has no iteration cap. It is still running after
\* a request exactly when that request appended a batch of Limit or more
\* items, and it has ended exactly when the last request appended nothing
\* or a batch shorter than Limit.
C3_StopsOnlyOnShortPage ==
    (Len(reqlog) >= 1 /\ ~beyond /\ pc # "raised") =>
        (pc \in {"sleep", "request"} <=> Len(LastBatch) >= Limit)

\* MaxRequests full pages have been accumulated and the loop is about to
\* issue yet another request
C3_Witness ==
    /\ pc = "request"
    /\ ~beyond
    /\ Len(reqlog) = MaxRequests
    /\ Len(all_items) = MaxRequests * Limit
    /\ reports = <<>>

\* C4: when the first page's decoded body is an integer, a boolean or null,
\* at top level or as the value of "response", _fetch_all returns the empty
\* list after exactly one request.
C4_SentinelFirstPage ==
    (/\ Len(reqlog) = 1
     /\ last.kind = "json" /\ last.code = HttpOk
     /\ \/ IsSentinel(last.data)
        \/ /\ IsDict(last.data)
           /\ HasKey(last.data, "response")
           /\ ~HasKey(last.data, "error")
           /\ IsSentinel(DictGet(last.data, "response", JNull)))
    => (pc = "done" /\ all_items = <<>> /\ exc = NoExc /\ sleeps = 0)

\* the first body is {"response": false}
C4_Witness ==
    /\ Len(reqlog) = 1
    /\ last = Ok(Envelope(JBool(FALSE)))
    /\ pc = "done"
    /\ all_items = <<>>

\* C5: whatever shape a page decodes to, no exception leaves _fetch_all:
\* after every request the loop has either ended or gone on to the next
\* page, and all_items is a list.
C5_NeverRaises ==
    /\ exc.fn # "_fetch_all"
    /\ call = "_fetch_all" => pc # "raised"
    /\ (call = "_fetch_all" /\ Len(reqlog) >= 1) => pc \in {"done", "sleep", "request"}
    /\ DOMAIN all_items = 1..Len(all_items)

\* a float body, on which data.get raises AttributeError inside the try:
\* reported with st.error, the call returns what it had
C5_Witness ==
    /\ call = "_fetch_all"
    /\ last = Ok(JFloat(150))
    /\ pc = "done"
    /\ Len(reports) = 1 /\ reports[1] = "error"
    /\ exc = NoExc

\* C6 (as claimed): the batch taken from {"response": X} equals the batch
\* taken from X itself, for every payload X.
C6_EnvelopeTransparent ==
    (/\ Len(reqlog) >= 1 /\ ~beyond
     /\ last.kind = "json" /\ last.code = HttpOk
     /\ IsDict(last.data)
     /\ Len(last.data.v) = 1
     /\ HasKey(last.data, "response"))
    => LastBatch = Iteration(Ok(DictGet(last.data, "response", JNull))).items

\* C7 (as claimed): every element of the list _fetch_all returns is a mapping.
C7_OnlyMappings ==
    pc = "done" => \A i \in 1..Len(all_items) : IsDict(all_items[i])

-----------------------------------------------------------------------------
(* Properties of get_supplies *)

\* the ingredients value of a supply document, [] when the key is absent
IngredientsOf(supply) == DictGet(supply, "ingredients", JList(<<>>))

\* a supply whose ingredients value is a list of mappings (possibly empty)
HasChildList(supply) ==
    /\ IsDict(supply)
    /\ HasKey(supply, "ingredients")
    /\ IsList(IngredientsOf(supply))
    /\ \A j \in 1..Len(IngredientsOf(supply).v) : IsDict(IngredientsOf(supply).v[j])

\* the nested children of a supply: the entries of its ingredients list
ChildrenOf(supply) ==
    IF IsDict(supply) /\ IsList(IngredientsOf(supply))
    THEN IngredientsOf(supply).v
    ELSE <<>>

\* <<parent index, child index>> of every nested child, in parent order
\* and child-list order within each parent
ChildRefs(raw_data) ==
    Concat([i \in 1..Len(raw_data) |->
              [j \in 1..Len(ChildrenOf(raw_data[i])) |-> <<i, j>>]])

\* the value of a converted numeric field, in hundredths
NumVal(x) == IF x.t = "int" THEN 100 * x.v ELSE x.v

\* C8: when every parent holds a list of k_i ingredient mappings,
\* get_supplies returns one row per nested child, in parent order and then
\* child-list order: sum(k_i) rows, row r carrying the parent fields and the
\* ingredient_id of the r-th child.
C8_FlattenConcat ==
    (/\ call = "get_supplies"
     /\ pc \in {"returned", "raised"}
     /\ \A i \in 1..Len(all_items) : HasChildList(all_items[i]))
    => LET refs == ChildRefs(all_items) IN
         /\ pc = "returned"
         /\ Len(flattened_rows) = Len(refs)
         /\ \A r \in 1..Len(refs) :
              LET parent == all_items[refs[r][1]]
                  child == ChildrenOf(parent)[refs[r][2]]
              IN /\ flattened_rows[r].supply_id = DictGet(parent, "supply_id", JNull)
                 /\ flattened_rows[r].date = DictGet(parent, "date", JNull)
                 /\ flattened_rows[r].supplier_id = DictGet(parent, "supplier_id", JNull)
                 /\ flattened_rows[r].ingredient_id = DictGet(child, "ingredient_id", JNull)
                 /\ flattened_rows[r].ingredient_name = DictGet(child, "ingredient_name", JNull)

\* two parents, the first with two children and the second with one,
\* give three rows in that order
C8_Witness ==
    /\ call = "get_supplies"
    /\ pc = "returned"
    /\ all_items = <<SupplyDoc(JList(<<ItemGood, ItemBadPrice>>)),
                     SupplyDoc(JList(<<ItemBadPrice>>))>>
    /\ Len(flattened_rows) = 3
    /\ flattened_rows[1].ingredient_id = JInt(1)
    /\ flattened_rows[2].ingredient_id = JInt(2)
    /\ flattened_rows[3].ingredient_id = JInt(2)

\* C9 (as claimed): parents whose ingredients value is absent, null or
\* anything but a non-empty list contribute no rows, and get_supplies does
\* not raise.
C9_NonListSkipped ==
    (/\ call = "get_supplies"
     /\ pc \in {"returned", "raised"}
     /\ \A i \in 1..Len(all_items) :
          /\ IsDict(all_items[i])
          /\ ~(IsList(IngredientsOf(all_items[i])) /\ Len(IngredientsOf(all_items[i]).v) > 0))
    => (pc = "returned" /\ flattened_rows = <<>>)

\* C10 (as claimed): each numeric field of a child converts on its own: a
\* field that parses keeps its converted value (price and sum divided by
\* 100), a field that does not parse is zero, and the row is emitted.
C10_FieldLocal ==
    (call = "get_supplies" /\ pc = "returned") =>
        LET refs == ChildRefs(all_items) IN
          /\ Len(flattened_rows) = Len(refs)
          /\ \A r \in 1..Len(refs) :
               LET child == ChildrenOf(all_items[refs[r][1]])[refs[r][2]]
                   p == ToFloat(DictGet(child, "price", JInt(0)))
                   s == ToFloat(DictGet(child, "sum", JInt(0)))
                   n == ToFloat(DictGet(child, "num", JInt(0)))
               IN /\ NumVal(flattened_rows[r].unit_price) =
                       (IF p.err = "none" THEN p.val \div 100 ELSE 0)
                  /\ NumVal(flattened_rows[r].total_sum) =
                       (IF s.err = "none" THEN s.val \div 100 ELSE 0)
                  /\ NumVal(flattened_rows[r].quantity) =
                       (IF n.err = "none" THEN n.val ELSE 0)

\* the product lines process_top_products aggregates, in input order
ProductLines == DropNa(Explode(df, "products"))

\* the position at which a product name first occurs in the input
FirstSeen(name) ==
    CHOOSE i \in 1..Len(ProductLines) :
        /\ Cell(ProductLines[i], "name") = name
        /\ \A j \in 1..(i - 1) : Cell(ProductLines[j], "name") # name

\* g stands before h in the claimed order: more revenue, or the same
\* revenue and met earlier
RanksBefore(g, h) ==
    \/ g.payed_sum > h.payed_sum
    \/ g.payed_sum = h.payed_sum /\ FirstSeen(g.name) < FirstSeen(h.name)

\* C11: process_top_products returns the groups in descending order of
\* summed revenue, cut to the top 10, and groups of equal summed revenue
\* stand in the order in which they were first met in the input.
C11_TiesInEncounterOrder ==
    (call = "process_top_products" /\ pc = "returned" /\ reports = <<>>) =>
        LET groups == Range(GroupByName(ProductLines)) IN
          /\ Len(result) = Min(TopN, Cardinality(groups))
          /\ Range(result) \subseteq groups
          /\ \A i, j \in 1..Len(result) : i < j => RanksBefore(result[i], result[j])
          /\ \A g \in groups \ Range(result) :
               \A i \in 1..Len(result) : RanksBefore(result[i], g)

\* the rows of df whose close-timestamp parses, and the hours they fall in
Parseable == {i \in 1..Len(df) : ToDatetime(Cell(df[i], "date_close")).err = "none"
                                 /\ ~ToDatetime(Cell(df[i], "date_close")).nat}
HourOf(i) == ToDatetime(Cell(df[i], "date_close")).hour

\* C12: process_hourly_sales drops a record whose close-timestamp cannot be
\* parsed on its own -- every hour in which a parseable record falls has
\* its bucket in the result, in ascending hour order, so one bad timestamp
\* never empties the aggregate.
C12_BadTimestampDroppedAlone ==
    (/\ call = "process_hourly_sales" /\ pc = "returned"
     /\ \A i \in 1..Len(df) : HasKey(df[i], "date_close") /\ HasKey(df[i], "payed_sum")) =>
        /\ {result[k].hour : k \in 1..Len(result)} = {HourOf(i) : i \in Parseable}
        /\ \A k \in 1..Len(result) :
             result[k].total =
               SumSkipNa([i \in 1..Len(df) |->
                            IF i \in Parseable /\ HourOf(i) = result[k].hour
                            THEN Div100(ToNumeric(Cell(df[i], "payed_sum")))
                            ELSE NaN])
        /\ \A k \in 1..(Len(result) - 1) : result[k].hour < result[k + 1].hour

\* title is name_old or name_old_N
IsBackupTitle(title, name) ==
    \/ title = <<name, "_old">>
    \/ /\ Len(title) >= 4
       /\ SubSeq(title, 1, 3) = <<name, "_old", "_">>
       /\ \A i \in 4..Len(title) : title[i] \in Digits

\* C14: whenever save_data(df, name) was called with a non-empty df while
\* a sheet titled name existed, the rows that sheet held before the call
\* are still in the spreadsheet under a backup title (name_old or
\* name_old_N), whatever the rename and add-worksheet calls did and after
\* any further saves.  The formula asks less than that: it is also met
\* when the rows are still under the title name itself, as they are after
\* a call that gave up before touching the sheet; it fails only when the
\* rows are nowhere in the spreadsheet.
C14_OldRowsKeptInBackup ==
    call = "save_data" =>
        \A k \in 1..Len(saves) :
            (saves[k].df # <<>> /\ saves[k].before.existed /\ saves[k].before.rows # <<>>) =>
                \E i \in 1..Len(sheets) :
                    /\ \/ IsBackupTitle(sheets[i].title, saves[k].name)
                       \/ sheets[i].title = <<saves[k].name>>
                    /\ sheets[i].rows = saves[k].before.rows

\* C13: save_all_data processes its entities strictly one after another;
\* a failed or cut-short extraction or a failed write of one entity
\* neither keeps any later entity of the list from being fetched and
\* saved -- so a sync in which an extraction failed or was cut short, or a
\* write failed, is over only when every entity has been fetched, in list
\* order -- nor undoes a sheet written for an earlier entity.
C13_LaterEntitiesStillProcessed ==
    call = "save_all_data" =>
        /\ Len(synclog) <= Len(Entities)
        /\ \A k \in 1..Len(synclog) : synclog[k].name = Entities[k].name
        /\ \A k \in 1..Len(synclog) :
             synclog[k].saved =>
               /\ HasSheet(sheets, Title(synclog[k].name))
               /\ Holding(sheets, Title(synclog[k].name)).rows = AsStr(synclog[k].df)
        /\ (/\ pc \in {"returned", "raised"}
            /\ \E k \in 1..Len(synclog) :
                 synclog[k].cut \/ (synclog[k].df # <<>> /\ ~synclog[k].saved)) =>
               Len(synclog) = Len(Entities)

\* C15: the k-th request of one call carries limit = 1000 and
\* offset = 1000*(k-1); when every earlier page held exactly 1000 items the
\* accumulator holds exactly offset records as the request is issued; one
\* sleep separates two consecutive requests and none follows the last one.
C15_OffsetInvariant ==
    ~beyond =>
        /\ \A k \in 1..Len(reqlog) :
             /\ reqlog[k] = [limit |-> 1000, offset |-> 1000 * (k - 1)]
             /\ (\A j \in 1..(k - 1) : Len(pages[j]) = 1000) => held[k] = reqlog[k].offset
        /\ pc = "request" => sleeps = Len(reqlog)
        /\ (pc # "request" /\ Len(reqlog) >= 1) => sleeps = Len(reqlog) - 1

\* the third request goes out at offset 2000 after two pages of exactly 1000
\* items and two sleeps, and the call has ended without a third sleep
C15_Witness ==
    /\ Len(reqlog) = 3 /\ ~beyond
    /\ reqlog[3].offset = 2000 /\ held[3] = 2000
    /\ Len(pages[1]) = 1000 /\ Len(pages[2]) = 1000
    /\ pc = "done" /\ sleeps = 2

====
